---- MODULE Spec2Model ----
(***************************************************************************)
(* Aura companion backend (src/backend_listener.py).                       *)
(*                                                                         *)
(* The message collection and the long_term memory document live in an     *)
(* external document store; the generative model is an external service.   *)
(* Both can fail on any call.  The listener callback (on_snapshot ->        *)
(* process_new_messages) runs on the store client's watch thread, one      *)
(* notification at a time; the scheduler thread polls schedule.run_pending *)
(* once per second.  Each store or generation call is one step, so that    *)
(* the two threads and the outside writers interleave between calls.       *)
(***************************************************************************)
EXTENDS Integers, Sequences, FiniteSets, TLC

(* ---- program constants ------------------------------------------------ *)
SUMMARY_INTERVAL == 5
HISTORY_LIMIT == 15
AI_FALLBACK == "I'm having a little trouble thinking right now. Please try again in a moment."
CHECKIN_FALLBACK == "Just wanted to check in and see how you are."
FANOUT_FALLBACK == "Just checking in on you. Hope you're having a good day."

(* ---- bounds of the model ---------------------------------------------- *)
MaxSends == 3       \* user writes when batches arrive one after another
MaxBatch == 3       \* ... each of 1..MaxBatch messages
MaxSendsLive == 2   \* user writes when they arrive at any moment
MaxBurst == 5       \* ... each of one message or a burst of MaxBurst
MaxRemoves == 1     \* times the outside world clears the collection
MaxQueue == 2       \* undelivered notifications kept apart (later ones coalesce)
MaxStored == 20     \* size of the stored log in the history-query runs
MaxDays == 1        \* whole days the clock runs through
MaxSendsDay == 1    \* user writes while the scheduler is modelled
MaxChanges == 3     \* changes in the notification of the callback-only runs
MaxUsers == 3       \* user documents the multi-tenant scheduler can find
MaxEvents == 2      \* after a morning start: user bursts plus parts of the day begun

(* ---- values ----------------------------------------------------------- *)
\* Text returned by a successful generate_content call, by what it is for.
ReplyText == "reply"
ProactiveText == "proactive"
UserText == "hello"
\* Profiles the summarization prompt can come back with.
Summaries == {"profile_a", "profile_b"}

Doc(ts, sender, text) == [ts |-> ts, sender |-> sender, text |-> text]
Change(type, doc) == [type |-> type, doc |-> doc]

VARIABLES
    msgs,           \* artifacts/APP_ID/users/USER_ID/messages: set of documents
    nextTs,         \* next SERVER_TIMESTAMP the store assigns
    memory,         \* memory/long_term 'summary' field ("" when absent)
    pending,        \* snapshot notifications not yet handed to on_snapshot
    counter,        \* user_messages_since_last_summary
    lpc,            \* where the listener callback is
    messages,       \* process_new_messages: its argument
    user_memory,    \* process_new_messages: local
    chat_history,   \* process_new_messages: local
    ai_text,        \* process_new_messages: local
    new_summary,    \* summarize_conversation: response.text
    inv,            \* record of the invocation in progress (history variable)
    runs,           \* batch sizes of the finished invocations (history variable)
    userSent,       \* user writes so far
    removed,        \* times the collection has been cleared
    mpc,            \* where the main thread is
    spc,            \* where the scheduler thread is
    now,            \* wall clock, in parts of a day: 3 * day + part
    next_run,       \* schedule: each job's next_run
    job,            \* the job run_pending is running
    pro_memory,     \* startup message / check-in job: user_memory
    pro_text,       \* startup message / check-in job: message_text
    setup_at,       \* when run_scheduler registered the jobs (history variable)
    fired,          \* times each job has fired today (history variable)
    closed,         \* the day that ended last, as counted (history variable)
    fanout          \* the multi-tenant scheduler (checkin_scheduler.py), a
                    \* process of its own: where it is, its locals, and what
                    \* the job in progress has appended to each user's log

vars == <<msgs, nextTs, memory, pending, counter, lpc, messages, user_memory,
          chat_history, ai_text, new_summary, inv, runs, userSent, removed,
          mpc, spc, now, next_run, job, pro_memory, pro_text, setup_at,
          fired, closed, fanout>>

store == <<msgs, nextTs, pending>>
locals == <<messages, user_memory, chat_history, ai_text, new_summary>>
env == <<userSent, removed, fanout>>
clock == <<now, setup_at, fired, closed>>
proactive == <<mpc, spc, next_run, job, pro_memory, pro_text>>

(* ---- helpers ---------------------------------------------------------- *)
Min(a, b) == IF a <= b THEN a ELSE b

RECURSIVE SeqSum(_)
SeqSum(s) == IF s = <<>> THEN 0 ELSE Head(s) + SeqSum(Tail(s))

\* s[::-1]; t names the value of s, so that s is evaluated once
Reverse(s) ==
    CHOOSE r \in {[i \in 1..Len(t) |-> t[Len(t) + 1 - i]] : t \in {s}} : TRUE

Take(s, n) == SubSeq(s, 1, Min(n, Len(s)))

Range(s) == {s[i] : i \in 1..Len(s)}

\* order_by('timestamp', direction=DESCENDING) over a set of documents: the
\* i-th is the one that has i - 1 documents newer than it (the timestamps the
\* server assigns are distinct)
OrderByTimestampDesc(S) ==
    [i \in 1..Cardinality(S) |->
        CHOOSE d \in S : Cardinality({e \in S : e.ts > d.ts}) = i - 1]

\* Faulty variant: the [::-1] is missing
RecentNewestFirst(S) == Take(OrderByTimestampDesc(S), HISTORY_LIMIT)

\* messages_ref.order_by(...DESCENDING).limit(15).stream(), then [::-1]
RecentHistory(S) == Reverse(Take(OrderByTimestampDesc(S), HISTORY_LIMIT))

\* One change of the given type per document of S, oldest document first
ChangesOf(type, S) ==
    LET docs == Reverse(OrderByTimestampDesc(S))
    IN [i \in 1..Len(docs) |-> Change(type, docs[i])]

\* messages_ref.on_snapshot(on_snapshot) has been called
Subscribed == lpc \notin {"off", "starting"}

\* The store hands a change to the listener: as a notification of its own
\* while fewer than MaxQueue are waiting, otherwise with the last one waiting.
Notify(q, changes) ==
    IF Len(q) < MaxQueue THEN Append(q, changes)
    ELSE [q EXCEPT ![Len(q)] = @ \o changes]

\* messages_ref.add({... 'timestamp': SERVER_TIMESTAMP})
AddDocs(senderTexts) ==
    LET n == Len(senderTexts)
        docs == [i \in 1..n |-> Doc(nextTs + i - 1, senderTexts[i][1], senderTexts[i][2])]
    IN /\ msgs' = msgs \cup Range(docs)
       /\ nextTs' = nextTs + n
       /\ pending' = IF ~Subscribed THEN pending
                     ELSE Notify(pending, [i \in 1..n |-> Change("ADDED", docs[i])])

\* The multi-tenant scheduler when it is not deployed
FanoutOff == [pc |-> "off", users |-> {}, job |-> "", user_ids |-> <<>>, i |-> 0,
              message_text |-> "", appended |-> <<>>, tried |-> <<>>,
              failed |-> {}, listed |-> "none"]

\* What the invocation in progress has done so far: batch size, counter after
\* the increment, generation calls, documents added, Summarizer calls, memory
\* writes, the call that raised out of it; the summary and the window as
\* they were read, and the arguments of the calls of get_ai_response and
\* summarize_conversation.
NoInv == [size |-> 0, inc |-> 0, histRead |-> FALSE, genCalls |-> 0,
          genFailed |-> FALSE, added |-> {}, summ |-> 0, sumFailed |-> FALSE,
          memBefore |-> "", memWrites |-> 0, raisedBy |-> "",
          memRead |-> "", window |-> <<>>, replyArgs |-> <<>>, sumArgs |-> <<>>]

(* ---- the outside world ------------------------------------------------ *)
\* The user's client writes k messages that reach the listener together.
\* `when` is the moment the writer picks.
UserSend(sizes, maxSends, when) ==
    \E k \in sizes :
        /\ when
        /\ userSent < maxSends
        /\ AddDocs([i \in 1..k |-> <<"user", UserText>>])
        /\ userSent' = userSent + 1
        /\ UNCHANGED <<memory, counter, lpc, locals, inv, runs, removed, fanout,
                       clock, proactive>>

\* The conversation is cleared: every document of the collection is deleted
\* (one REMOVED change each).
RemoveDocs ==
    /\ removed < MaxRemoves
    /\ msgs # {}
    /\ msgs' = {}
    /\ pending' = IF ~Subscribed THEN pending
                  ELSE Notify(pending, ChangesOf("REMOVED", msgs))
    /\ removed' = removed + 1
    /\ UNCHANGED <<nextTs, memory, counter, lpc, locals, inv, runs, userSent,
                   fanout, clock, proactive>>

(* ---- Change Listener -------------------------------------------------- *)
\* on_snapshot: keep the ADDED changes whose sender is user
\* Faulty variant: every added document is taken, whoever wrote it
AddedMessages(changes) ==
    SelectSeq(changes, LAMBDA c : c.type = "ADDED")

\* Faulty variant: the change type is not looked at
UserChanges(changes) ==
    SelectSeq(changes, LAMBDA c : c.doc.sender = "user")

NewUserMessages(changes) ==
    SelectSeq(changes, LAMBDA c : c.type = "ADDED" /\ c.doc.sender = "user")

\* Faulty variant: the callback is entered while an invocation is running
on_snapshot_reentrant ==
    /\ Subscribed
    /\ lpc # "raised"
    /\ pending # <<>>
    /\ pending' = Tail(pending)
    /\ LET kept == NewUserMessages(Head(pending))
           new_user_messages == [i \in 1..Len(kept) |-> kept[i].doc]
       IN IF new_user_messages # <<>>
          THEN /\ lpc' = "count"
               /\ messages' = new_user_messages
          ELSE /\ lpc' = lpc
               /\ messages' = messages
    /\ inv' = NoInv
    /\ UNCHANGED <<msgs, nextTs, memory, counter, user_memory, chat_history,
                   ai_text, new_summary, runs, env, clock, proactive>>

\* The watch delivers snapshots one at a time on its own thread: the callback
\* is entered only when the previous call has returned.
on_snapshot ==
    /\ lpc = "wait"
    /\ pending # <<>>
    /\ pending' = Tail(pending)
    /\ LET kept == NewUserMessages(Head(pending))
           new_user_messages == [i \in 1..Len(kept) |-> kept[i].doc]
       IN IF new_user_messages # <<>>
          THEN /\ lpc' = "count"
               /\ messages' = new_user_messages
          ELSE /\ lpc' = "wait"
               /\ messages' = messages
    /\ inv' = NoInv
    /\ UNCHANGED <<msgs, nextTs, memory, counter, user_memory, chat_history,
                   ai_text, new_summary, runs, env, clock, proactive>>

(* ---- Response Pipeline: process_new_messages -------------------------- *)
\* "Processing n new message(s)": the counter takes the batch size
\* Faulty variant: one is counted per batch
count_messages_per_batch ==
    /\ lpc = "count"
    /\ IF messages = <<>>
       THEN /\ lpc' = "ret"
            /\ UNCHANGED <<counter, inv>>
       ELSE /\ counter' = counter + 1
            /\ inv' = [inv EXCEPT !.size = Len(messages),
                                  !.inc = counter + Len(messages)]
            /\ lpc' = "memory"
    /\ UNCHANGED <<store, memory, locals, runs, env, clock, proactive>>

count_messages ==
    /\ lpc = "count"
    /\ IF messages = <<>>
       THEN /\ lpc' = "ret"
            /\ UNCHANGED <<counter, inv>>
       ELSE /\ counter' = counter + Len(messages)
            /\ inv' = [inv EXCEPT !.size = Len(messages),
                                  !.inc = counter + Len(messages)]
            /\ lpc' = "memory"
    /\ UNCHANGED <<store, memory, locals, runs, env, clock, proactive>>

\* get_user_memory: the stored summary, '' when the read raises
get_user_memory(ok) == IF ok THEN memory ELSE ""

load_memory ==
    /\ lpc = "memory"
    /\ \E ok \in BOOLEAN : user_memory' = get_user_memory(ok)
    /\ inv' = [inv EXCEPT !.memRead = user_memory']
    /\ lpc' = "history"
    /\ UNCHANGED <<store, memory, counter, messages, chat_history, ai_text,
                   new_summary, runs, env, clock, proactive>>

\* Faulty variant: no early return on an empty window
load_history_no_return ==
    /\ lpc = "history"
    /\ LET docs == RecentHistory(msgs)
       IN /\ chat_history' = docs
          /\ lpc' = "generate"
          /\ inv' = [inv EXCEPT !.histRead = TRUE, !.window = docs]
    /\ UNCHANGED <<store, memory, counter, messages, user_memory, ai_text,
                   new_summary, runs, env, clock, proactive>>

\* the history query succeeds; an empty window ends the invocation
load_history_ok ==
    /\ lpc = "history"
    /\ \E docs \in {RecentHistory(msgs)} :
          /\ chat_history' = docs
          /\ lpc' = IF docs = <<>> THEN "ret" ELSE "generate"
          /\ inv' = [inv EXCEPT !.histRead = TRUE, !.window = docs]
    /\ UNCHANGED <<store, memory, counter, messages, user_memory, ai_text,
                   new_summary, runs, env, clock, proactive>>

\* the history query raises: nothing in process_new_messages catches it
load_history_raises ==
    /\ lpc = "history"
    /\ lpc' = "raised"
    /\ inv' = [inv EXCEPT !.raisedBy = "history"]
    /\ UNCHANGED <<store, memory, counter, locals, runs, env, clock, proactive>>

\* get_ai_response: the generated text, or the fixed apology when
\* generate_content raises
\* Faulty variant: the other fallback string
ReplyOnFailureCheckin == CHECKIN_FALLBACK

ReplyOnFailure == AI_FALLBACK

get_ai_response ==
    /\ lpc = "generate"
    /\ \E ok \in BOOLEAN :
          /\ ai_text' = IF ok THEN ReplyText ELSE ReplyOnFailure
          /\ inv' = [inv EXCEPT !.genCalls = @ + 1, !.genFailed = ~ok,
                                !.replyArgs = <<chat_history, user_memory>>]
    /\ lpc' = "save"
    /\ UNCHANGED <<store, memory, counter, messages, user_memory, chat_history,
                   new_summary, runs, env, clock, proactive>>

\* Faulty variant: one reply per message of the batch
save_reply_per_message ==
    /\ lpc = "save"
    /\ AddDocs([i \in 1..Len(messages) |-> <<"ai", ai_text>>])
    /\ inv' = [inv EXCEPT !.added = @ \cup (msgs' \ msgs)]
    /\ lpc' = "check"
    /\ UNCHANGED <<memory, counter, locals, runs, env, clock, proactive>>

\* messages_ref.add({'sender': 'ai', 'text': ai_text, ...}) succeeds
save_reply_ok ==
    /\ lpc = "save"
    /\ AddDocs(<< <<"ai", ai_text>> >>)
    /\ inv' = [inv EXCEPT !.added = @ \cup (msgs' \ msgs)]
    /\ lpc' = "check"
    /\ UNCHANGED <<memory, counter, locals, runs, env, clock, proactive>>

\* Faulty variant: the write error is swallowed and the invocation goes on
save_reply_swallowed ==
    /\ lpc = "save"
    /\ lpc' = "check"
    /\ UNCHANGED <<store, memory, counter, locals, inv, runs, env, clock, proactive>>

\* messages_ref.add raises: nothing in process_new_messages catches it
save_reply_raises ==
    /\ lpc = "save"
    /\ lpc' = "raised"
    /\ inv' = [inv EXCEPT !.raisedBy = "save"]
    /\ UNCHANGED <<store, memory, counter, locals, runs, env, clock, proactive>>

\* if user_messages_since_last_summary >= SUMMARY_INTERVAL
\* Faulty variant: strictly more than the interval
ThresholdExceeded(c) == c > SUMMARY_INTERVAL

ThresholdReached(c) == c >= SUMMARY_INTERVAL

\* Faulty variant: the Summarizer is given a fresh read of the history and
\* of the stored summary
check_summary_rereads ==
    /\ lpc = "check"
    /\ IF ThresholdReached(counter)
       THEN /\ lpc' = "summarize"
            /\ chat_history' = RecentHistory(msgs)
            /\ user_memory' = memory
            /\ inv' = [inv EXCEPT !.summ = @ + 1, !.memBefore = memory,
                                  !.sumArgs = <<chat_history', user_memory'>>]
       ELSE /\ lpc' = "ret"
            /\ UNCHANGED <<inv, chat_history, user_memory>>
    /\ UNCHANGED <<store, memory, counter, messages, ai_text, new_summary,
                   runs, env, clock, proactive>>

\* summarize_conversation(chat_history, user_memory) is called with the
\* locals of the invocation
check_summary ==
    /\ lpc = "check"
    /\ IF ThresholdReached(counter)
       THEN /\ lpc' = "summarize"
            /\ inv' = [inv EXCEPT !.summ = @ + 1, !.memBefore = memory,
                                  !.sumArgs = <<chat_history, user_memory>>]
       ELSE /\ lpc' = "ret"
            /\ inv' = inv
    /\ UNCHANGED <<store, memory, counter, locals, runs, env, clock, proactive>>

\* summarize_conversation: generate_content returns the merged profile
summarize_generate_ok ==
    /\ lpc = "summarize"
    /\ \E s \in Summaries : new_summary' = s
    /\ inv' = [inv EXCEPT !.genCalls = @ + 1]
    /\ lpc' = "update"
    /\ UNCHANGED <<store, memory, counter, messages, user_memory, chat_history,
                   ai_text, runs, env, clock, proactive>>

\* Faulty variant: the failure clears the stored profile
summarize_generate_fails_clears ==
    /\ lpc = "summarize"
    /\ inv' = [inv EXCEPT !.genCalls = @ + 1, !.sumFailed = TRUE,
                          !.memWrites = @ + 1]
    /\ memory' = ""
    /\ lpc' = "reset"
    /\ UNCHANGED <<store, counter, locals, runs, env, clock, proactive>>

\* summarize_conversation: generate_content raises; the except clause
\* prints and returns
summarize_generate_fails ==
    /\ lpc = "summarize"
    /\ inv' = [inv EXCEPT !.genCalls = @ + 1, !.sumFailed = TRUE]
    /\ lpc' = "reset"
    /\ UNCHANGED <<store, memory, counter, locals, runs, env, clock, proactive>>

\* update_user_memory: set({'summary': new_summary}); a store error is
\* printed and swallowed
update_user_memory ==
    /\ lpc = "update"
    /\ \E ok \in BOOLEAN :
          IF ok THEN /\ memory' = new_summary
                     /\ inv' = [inv EXCEPT !.memWrites = @ + 1]
                ELSE UNCHANGED <<memory, inv>>
    /\ lpc' = "reset"
    /\ UNCHANGED <<store, counter, locals, runs, env, clock, proactive>>

\* user_messages_since_last_summary = 0
\* Faulty variant: the interval is subtracted
CounterMinusInterval(c) == c - SUMMARY_INTERVAL

CounterAfterSummary(c) == 0

reset_counter ==
    /\ lpc = "reset"
    /\ counter' = CounterAfterSummary(counter)
    /\ lpc' = "ret"
    /\ UNCHANGED <<store, memory, locals, inv, runs, env, clock, proactive>>

\* process_new_messages and on_snapshot return: the locals are gone
pipeline_return ==
    /\ lpc = "ret"
    /\ lpc' = "wait"
    /\ runs' = Append(runs, [size |-> inv.size, inc |-> inv.inc,
                             summ |-> inv.summ,
                             added |-> Cardinality(inv.added)])
    /\ inv' = NoInv
    /\ messages' = <<>>
    /\ user_memory' = ""
    /\ chat_history' = <<>>
    /\ ai_text' = ""
    /\ new_summary' = ""
    /\ UNCHANGED <<store, memory, counter, env, clock, proactive>>

process_new_messages ==
    \/ count_messages
    \/ load_memory
    \/ load_history_ok
    \/ load_history_raises
    \/ get_ai_response
    \/ save_reply_ok
    \/ save_reply_raises
    \/ check_summary
    \/ summarize_generate_ok
    \/ summarize_generate_fails
    \/ update_user_memory
    \/ reset_counter
    \/ pipeline_return

(* ---- Proactive messages: startup and the two check-in jobs ------------- *)
\* The text generate_content returns for a proactive prompt: it is marked
\* with the profile that the system instruction carried ("what you remember
\* about the user"), which is appended only when user_memory is not empty.
Personalized(summary) ==
    CASE summary = "profile_a" -> "proactive for profile_a"
      [] summary = "profile_b" -> "proactive for profile_b"
      [] OTHER -> ProactiveText

\* generate_proactive_message: the generated text, or the fixed check-in
\* line when generate_content raises
\* Faulty variant: the system instruction is the persona text alone
generate_proactive_message_plain(ok, summary) ==
    IF ok THEN ProactiveText ELSE CHECKIN_FALLBACK

generate_proactive_message(ok, summary) ==
    IF ok THEN Personalized(summary) ELSE CHECKIN_FALLBACK

Jobs == {"morning", "evening"}
PartOf(j) == IF j = "morning" THEN 1 ELSE 2     \* 09:00 opens part 1, 22:00 part 2
NoneFired == [j \in Jobs |-> 0]
NoDay == [fired |-> NoneFired, due |-> {}]

\* every().day.at(hh:mm): the first time that part of a day opens after t
NextAt(t, part) == CHOOSE n \in (t + 1)..(t + 3) : n % 3 = part

\* send_startup_message, called by the main thread before any thread starts
startup_memory ==
    /\ mpc = "startup"
    /\ \E ok \in BOOLEAN : pro_memory' = get_user_memory(ok)
    /\ mpc' = "startup_generate"
    /\ UNCHANGED <<store, memory, counter, lpc, locals, inv, runs, env, clock,
                   spc, next_run, job, pro_text>>

startup_generate ==
    /\ mpc = "startup_generate"
    /\ \E ok \in BOOLEAN : pro_text' = generate_proactive_message(ok, pro_memory)
    /\ mpc' = "startup_add"
    /\ UNCHANGED <<store, memory, counter, lpc, locals, inv, runs, env, clock,
                   spc, next_run, job, pro_memory>>

startup_add_ok ==
    /\ mpc = "startup_add"
    /\ AddDocs(<< <<"ai", pro_text>> >>)
    /\ mpc' = "threads"
    /\ UNCHANGED <<memory, counter, lpc, locals, inv, runs, env, clock,
                   spc, next_run, job, pro_memory, pro_text>>

\* messages_ref.add raises: the main thread ends before any thread is started
startup_add_raises ==
    /\ mpc = "startup_add"
    /\ mpc' = "raised"
    /\ UNCHANGED <<store, memory, counter, lpc, locals, inv, runs, env, clock,
                   spc, next_run, job, pro_memory, pro_text>>

send_startup_message ==
    \/ startup_memory
    \/ startup_generate
    \/ startup_add_ok
    \/ startup_add_raises

\* listener_thread.start(); scheduler_thread.start()
\* Faulty variant: the threads are started before send_startup_message
start_threads_first ==
    /\ mpc = "startup"
    /\ lpc = "off"
    /\ lpc' = "starting"
    /\ spc' = "setup"
    /\ UNCHANGED <<store, memory, counter, locals, inv, runs, env, clock,
                   mpc, next_run, job, pro_memory, pro_text>>

start_threads ==
    /\ mpc = "threads"
    /\ mpc' = "done"
    /\ lpc' = "starting"
    /\ spc' = "setup"
    /\ pro_memory' = ""
    /\ pro_text' = ""
    /\ UNCHANGED <<store, memory, counter, locals, inv, runs, env, clock,
                   next_run, job>>

\* start_listener: the subscription; the first snapshot reports every
\* document already in the collection as ADDED
start_listener ==
    /\ lpc = "starting"
    /\ lpc' = "wait"
    /\ pending' = <<ChangesOf("ADDED", msgs)>>
    /\ UNCHANGED <<msgs, nextTs, memory, counter, locals, inv, runs, env, clock,
                   proactive>>

\* run_scheduler: the two every().day.at(...).do(...) registrations
run_scheduler_setup ==
    /\ spc = "setup"
    /\ next_run' = [j \in Jobs |-> NextAt(now, PartOf(j))]
    /\ setup_at' = now
    /\ spc' = "poll"
    /\ UNCHANGED <<store, memory, counter, lpc, locals, inv, runs, env,
                   now, fired, closed, mpc, job, pro_memory, pro_text>>

\* schedule.run_pending: the jobs whose next_run has come, earliest first
Due == {j \in Jobs : next_run[j] <= now}

run_pending ==
    /\ spc = "poll"
    /\ Due # {}
    /\ job' = CHOOSE j \in Due : \A k \in Due : next_run[j] <= next_run[k]
    /\ fired' = [fired EXCEPT ![job'] = @ + 1]
    /\ spc' = "job_memory"
    /\ UNCHANGED <<store, memory, counter, lpc, locals, inv, runs, env,
                   now, setup_at, closed, mpc, next_run, pro_memory, pro_text>>

\* morning_checkin_job / evening_checkin_job: user_memory = get_user_memory()
\* Faulty variant: a check-in that cannot read the summary stores an empty one
job_memory_stores_default ==
    /\ spc = "job_memory"
    /\ \E ok \in BOOLEAN : /\ pro_memory' = get_user_memory(ok)
                           /\ memory' = IF ok THEN memory ELSE ""
    /\ spc' = "job_generate"
    /\ UNCHANGED <<store, counter, lpc, locals, inv, runs, env, clock,
                   mpc, next_run, job, pro_text>>

job_memory ==
    /\ spc = "job_memory"
    /\ \E ok \in BOOLEAN : pro_memory' = get_user_memory(ok)
    /\ spc' = "job_generate"
    /\ UNCHANGED <<store, memory, counter, lpc, locals, inv, runs, env, clock,
                   mpc, next_run, job, pro_text>>

job_generate ==
    /\ spc = "job_generate"
    /\ \E ok \in BOOLEAN : pro_text' = generate_proactive_message(ok, pro_memory)
    /\ spc' = "job_add"
    /\ UNCHANGED <<store, memory, counter, lpc, locals, inv, runs, env, clock,
                   mpc, next_run, job, pro_memory>>

\* the job's messages_ref.add succeeds; Job.run then reschedules the job
job_add_ok ==
    /\ spc = "job_add"
    /\ AddDocs(<< <<"ai", pro_text>> >>)
    /\ next_run' = [next_run EXCEPT ![job] = NextAt(now, PartOf(job))]
    /\ job' = ""
    /\ pro_memory' = ""
    /\ pro_text' = ""
    /\ spc' = "poll"
    /\ UNCHANGED <<memory, counter, lpc, locals, inv, runs, env, clock, mpc>>

\* the job's messages_ref.add raises: run_pending and the while loop of
\* run_scheduler catch nothing, and the scheduler thread ends
job_add_raises ==
    /\ spc = "job_add"
    /\ spc' = "raised"
    /\ UNCHANGED <<store, memory, counter, lpc, locals, inv, runs, env, clock,
                   mpc, next_run, job, pro_memory, pro_text>>

checkin_job ==
    \/ job_memory
    \/ job_generate
    \/ job_add_ok
    \/ job_add_raises

run_scheduler ==
    \/ run_scheduler_setup
    \/ run_pending
    \/ checkin_job

\* The next part of the day opens.  A polling scheduler acts within the
\* second, so a job that is due or running is over before the part is.
SchedulerBusy == spc \in {"job_memory", "job_generate", "job_add"}
                    \/ (spc = "poll" /\ Due # {})

Tick(last) ==
    /\ now < last
    /\ ~SchedulerBusy
    /\ now' = now + 1
    /\ IF now' % 3 = 0
       THEN /\ closed' = [fired |-> fired,
                          due |-> {j \in Jobs : setup_at >= 0
                                                  /\ setup_at < now - 2 + PartOf(j)}]
            /\ fired' = NoneFired
       ELSE UNCHANGED <<closed, fired>>
    /\ UNCHANGED <<store, memory, counter, lpc, locals, inv, runs, env,
                   setup_at, proactive>>

\* The scheduler as it stands in the runs that leave it aside.
SchedulerAside ==
    /\ mpc = "done"
    /\ spc = "poll"
    /\ now = 0
    /\ next_run = [j \in Jobs |-> PartOf(j)]
    /\ job = ""
    /\ pro_memory = ""
    /\ pro_text = ""
    /\ setup_at = 0
    /\ fired = NoneFired
    /\ closed = NoDay
    /\ fanout = FanoutOff

(* ---- the listener on its own ------------------------------------------ *)
\* The collection holds the startup message when the listener subscribes,
\* unless it has been removed by then; the first snapshot reports the
\* documents already there as ADDED.
InitListener ==
    /\ msgs \in {{Doc(1, "ai", ProactiveText)}, {}}
    /\ pending = <<[i \in 1..Cardinality(msgs) |->
                      Change("ADDED", Doc(1, "ai", ProactiveText))]>>
    /\ nextTs = 2
    /\ memory \in {"", "profile_a"}
    /\ counter = 0
    /\ lpc = "wait"
    /\ messages = <<>>
    /\ user_memory = ""
    /\ chat_history = <<>>
    /\ ai_text = ""
    /\ new_summary = ""
    /\ inv = NoInv
    /\ runs = <<>>
    /\ userSent = 0
    /\ removed = 0
    /\ SchedulerAside

\* Messages arrive, and documents are removed, at any moment.
NextListener ==
    \/ UserSend({1, MaxBurst}, MaxSendsLive, TRUE)
    \/ RemoveDocs
    \/ on_snapshot
    \/ process_new_messages

SpecListener == InitListener /\ [][NextListener]_vars

\* Each batch arrives after the listener is done with the one before.
ListenerIdle == lpc = "wait" /\ pending = <<>>

NextBatches ==
    \/ UserSend(1..MaxBatch, MaxSends, ListenerIdle)
    \/ on_snapshot
    \/ process_new_messages

SpecBatches == InitListener /\ [][NextBatches]_vars

(* ---- the history query on its own ------------------------------------- *)
\* An invocation on one user message is about to read the history; the
\* collection holds the documents stamped lo..hi, user and ai alternating,
\* less at most one removed since.
StoredDoc(t, hi) == Doc(t, IF (hi - t) % 2 = 0 THEN "user" ELSE "ai",
                           IF (hi - t) % 2 = 0 THEN UserText ELSE ReplyText)

InitHistory ==
    /\ \E lo \in 1..(MaxStored + 1), hi \in 1..MaxStored, gone \in 0..MaxStored :
          /\ hi - lo + 1 <= MaxStored
          /\ gone = 0 \/ gone \in lo..hi
          /\ msgs = {StoredDoc(t, hi) : t \in (lo..hi) \ {gone}}
          /\ nextTs = hi + 1
          /\ messages = <<StoredDoc(hi, hi)>>
    /\ pending = <<>>
    /\ memory = ""
    /\ counter = 1
    /\ lpc = "history"
    /\ user_memory = ""
    /\ chat_history = <<>>
    /\ ai_text = ""
    /\ new_summary = ""
    /\ inv = [NoInv EXCEPT !.size = 1, !.inc = 1]
    /\ runs = <<>>
    /\ userSent = 1
    /\ removed = 0
    /\ SchedulerAside

NextHistory ==
    \/ load_history_ok
    \/ load_history_raises

SpecHistory == InitHistory /\ [][NextHistory]_vars

(* ---- the multi-tenant scheduler: checkin_scheduler.py ------------------ *)
\* The single-tenant process is not part of this deployment.
singleTenant == <<store, memory, counter, lpc, locals, inv, runs, userSent,
                  removed, clock, proactive>>

FanoutText == "checkin"

\* users_ref.stream(): the user documents, by document id
RECURSIVE StreamIds(_)
StreamIds(S) ==
    IF S = {} THEN <<>>
    ELSE LET u == CHOOSE x \in S : \A y \in S : x <= y
         IN <<u>> \o StreamIds(S \ {u})

\* schedule.run_pending runs morning_checkin_job or evening_checkin_job
fanout_run_pending ==
    /\ fanout.pc = "poll"
    /\ \E j \in Jobs :
          fanout' = [fanout EXCEPT !.pc = "enumerate", !.job = j,
                                   !.user_ids = <<>>, !.i = 0,
                                   !.message_text = "",
                                   !.appended = [u \in fanout.users |-> <<>>],
                                   !.tried = <<>>, !.failed = {},
                                   !.listed = "none"]
    /\ UNCHANGED singleTenant

\* get_all_user_ids: the ids of the user documents, [] when the read raises
get_all_user_ids ==
    /\ fanout.pc = "enumerate"
    /\ \E ok \in BOOLEAN :
          fanout' = [fanout EXCEPT
                        !.user_ids = IF ok THEN StreamIds(fanout.users) ELSE <<>>,
                        !.listed = IF ok THEN "ok" ELSE "failed",
                        !.i = 1,
                        !.pc = "loop"]
    /\ UNCHANGED singleTenant

\* for user_id in user_ids: send_checkin_message_to_user(user_id, prompt).
\* A document id is never empty, so `if not user_id` does not return.
checkin_loop ==
    /\ fanout.pc = "loop"
    /\ fanout' = IF fanout.i > Len(fanout.user_ids)
                  THEN [fanout EXCEPT !.pc = "finished"]
                  ELSE [fanout EXCEPT !.pc = "generate",
                                      !.tried = Append(@, fanout.user_ids[fanout.i])]
    /\ UNCHANGED singleTenant

\* generate_proactive_message(prompt) of checkin_scheduler.py
fanout_generate ==
    /\ fanout.pc = "generate"
    /\ \E ok \in BOOLEAN :
          fanout' = [fanout EXCEPT
                        !.message_text = IF ok THEN FanoutText ELSE FANOUT_FALLBACK,
                        !.pc = "add"]
    /\ UNCHANGED singleTenant

\* messages_collection_ref.add(...) succeeds
fanout_add_ok ==
    /\ fanout.pc = "add"
    /\ fanout' = [fanout EXCEPT
                      !.appended[fanout.user_ids[fanout.i]] =
                          Append(@, fanout.message_text),
                      !.message_text = "",
                      !.i = @ + 1,
                      !.pc = "loop"]
    /\ UNCHANGED singleTenant

\* Faulty variant: the write error is not caught, as in the single-tenant jobs
fanout_add_raises ==
    /\ fanout.pc = "add"
    /\ fanout' = [fanout EXCEPT !.failed = @ \cup {fanout.user_ids[fanout.i]},
                                 !.pc = "raised"]
    /\ UNCHANGED singleTenant

\* messages_collection_ref.add(...) raises: the except clause prints and
\* the function returns
fanout_add_fails ==
    /\ fanout.pc = "add"
    /\ fanout' = [fanout EXCEPT !.failed = @ \cup {fanout.user_ids[fanout.i]},
                                 !.message_text = "",
                                 !.i = @ + 1,
                                 !.pc = "loop"]
    /\ UNCHANGED singleTenant

\* "Check-in Job Finished": back in the while loop
fanout_job_return ==
    /\ fanout.pc = "finished"
    /\ fanout' = [fanout EXCEPT !.pc = "poll"]
    /\ UNCHANGED singleTenant

\* The store holds any set of user documents.
InitFanout ==
    /\ \E users \in SUBSET (1..MaxUsers) :
          fanout = [FanoutOff EXCEPT !.pc = "poll", !.users = users,
                                     !.appended = [u \in users |-> <<>>]]
    /\ msgs = {}
    /\ nextTs = 1
    /\ pending = <<>>
    /\ memory = ""
    /\ counter = 0
    /\ lpc = "off"
    /\ messages = <<>>
    /\ user_memory = ""
    /\ chat_history = <<>>
    /\ ai_text = ""
    /\ new_summary = ""
    /\ inv = NoInv
    /\ runs = <<>>
    /\ userSent = 0
    /\ removed = 0
    /\ mpc = "off"
    /\ spc = "off"
    /\ now = 0
    /\ next_run = [j \in Jobs |-> 0]
    /\ job = ""
    /\ pro_memory = ""
    /\ pro_text = ""
    /\ setup_at = -1
    /\ fired = NoneFired
    /\ closed = NoDay

NextFanout ==
    \/ fanout_run_pending
    \/ get_all_user_ids
    \/ checkin_loop
    \/ fanout_generate
    \/ fanout_add_ok
    \/ fanout_add_fails
    \/ fanout_job_return

SpecFanout == InitFanout /\ [][NextFanout]_vars

(* ---- the listener started on a stored conversation -------------------- *)
\* The process is started again: the collection holds an earlier conversation
\* of n messages, user and ai alternating, and on top of it the startup
\* message just written; the listener thread is about to subscribe.
StoredConversation(n) ==
    {Doc(t, IF (n - t) % 2 = 1 THEN "user" ELSE "ai",
            IF (n - t) % 2 = 1 THEN UserText ELSE ReplyText) : t \in 1..n}
        \cup {Doc(n + 1, "ai", ProactiveText)}

InitRestart ==
    /\ \E n \in 0..MaxStored :
          /\ msgs = StoredConversation(n)
          /\ nextTs = n + 2
    /\ pending = <<>>
    /\ memory = "profile_a"
    /\ counter = 0
    /\ lpc = "starting"
    /\ messages = <<>>
    /\ user_memory = ""
    /\ chat_history = <<>>
    /\ ai_text = ""
    /\ new_summary = ""
    /\ inv = NoInv
    /\ runs = <<>>
    /\ userSent = 0
    /\ removed = 0
    /\ SchedulerAside

NextRestart ==
    \/ start_listener
    \/ on_snapshot
    \/ process_new_messages
    \/ UserSend({1}, MaxSendsDay, TRUE)

SpecRestart == InitRestart /\ [][NextRestart]_vars

(* ---- the callback on its own ------------------------------------------ *)
\* The watch is about to deliver one notification of up to MaxChanges
\* changes, each of any type and about a document of either sender; the
\* collection holds the documents that were added or modified.
ChangeTypes == {"ADDED", "MODIFIED", "REMOVED"}
Senders == {"user", "ai"}

InitSnapshot ==
    /\ \E n \in 0..MaxChanges :
          \E type \in [1..n -> ChangeTypes], sender \in [1..n -> Senders] :
             LET changes == [i \in 1..n |->
                               Change(type[i], Doc(i, sender[i],
                                      IF sender[i] = "user" THEN UserText
                                                            ELSE ReplyText))]
             IN /\ pending = <<changes>>
                /\ msgs = {changes[i].doc : i \in {j \in 1..n : type[j] # "REMOVED"}}
                /\ nextTs = n + 1
    /\ memory = ""
    /\ counter = 0
    /\ lpc = "wait"
    /\ messages = <<>>
    /\ user_memory = ""
    /\ chat_history = <<>>
    /\ ai_text = ""
    /\ new_summary = ""
    /\ inv = NoInv
    /\ runs = <<>>
    /\ userSent = 0
    /\ removed = 0
    /\ SchedulerAside

NextSnapshot ==
    \/ on_snapshot
    \/ count_messages

SpecSnapshot == InitSnapshot /\ [][NextSnapshot]_vars

(* ---- the whole process ------------------------------------------------ *)
\* __main__, started at any time of day on an empty collection
Init ==
    /\ msgs = {}
    /\ nextTs = 1
    /\ memory \in {"", "profile_a"}
    /\ pending = <<>>
    /\ counter = 0
    /\ lpc = "off"
    /\ messages = <<>>
    /\ user_memory = ""
    /\ chat_history = <<>>
    /\ ai_text = ""
    /\ new_summary = ""
    /\ inv = NoInv
    /\ runs = <<>>
    /\ userSent = 0
    /\ removed = 0
    /\ mpc = "startup"
    /\ spc = "off"
    /\ now \in 0..2
    /\ next_run = [j \in Jobs |-> 0]
    /\ job = ""
    /\ pro_memory = ""
    /\ pro_text = ""
    /\ setup_at = -1
    /\ fired = NoneFired
    /\ closed = NoDay
    /\ fanout = FanoutOff

Next ==
    \/ send_startup_message
    \/ start_threads
    \/ start_listener
    \/ on_snapshot
    \/ process_new_messages
    \/ run_scheduler
    \/ Tick(3 * MaxDays)
    \/ UserSend({1, MaxBurst}, MaxSendsDay, TRUE)

Spec == Init /\ [][Next]_vars

(* ---- the whole process, started before 09:00 -------------------------- *)
\* __main__ started in the first part of a day (now = 0), a profile already
\* stored; the user writes in bursts at any moment, and the bursts and the
\* parts of the day that begin number MaxEvents at most.
InitMain ==
    /\ Init
    /\ now = 0
    /\ memory = "profile_a"

NextMain ==
    \/ send_startup_message
    \/ start_threads
    \/ start_listener
    \/ on_snapshot
    \/ process_new_messages
    \/ run_scheduler
    \/ Tick(MaxEvents - userSent)
    \/ UserSend({MaxBurst}, MaxEvents - now, TRUE)

SpecMain == InitMain /\ [][NextMain]_vars

(* ---- the two threads, from the moment they are started ---------------- *)
\* __main__ at line 272: send_startup_message has returned, having read the
\* stored profile and added the generated startup message.
InitStarted ==
    /\ msgs = {Doc(1, "ai", Personalized("profile_a"))}
    /\ nextTs = 2
    /\ memory = "profile_a"
    /\ pending = <<>>
    /\ counter = 0
    /\ lpc = "off"
    /\ messages = <<>>
    /\ user_memory = ""
    /\ chat_history = <<>>
    /\ ai_text = ""
    /\ new_summary = ""
    /\ inv = NoInv
    /\ runs = <<>>
    /\ userSent = 0
    /\ removed = 0
    /\ mpc = "threads"
    /\ spc = "off"
    /\ now = 0
    /\ next_run = [j \in Jobs |-> 0]
    /\ job = ""
    /\ pro_memory = "profile_a"
    /\ pro_text = Personalized("profile_a")
    /\ setup_at = -1
    /\ fired = NoneFired
    /\ closed = NoDay
    /\ fanout = FanoutOff

NextStarted ==
    \/ start_threads
    \/ start_listener
    \/ on_snapshot
    \/ process_new_messages
    \/ run_scheduler
    \/ Tick(MaxEvents - userSent)
    \/ UserSend({MaxBurst}, MaxEvents - now, TRUE)

SpecStarted == InitStarted /\ [][NextStarted]_vars

\* The watch thread runs: a snapshot that is waiting is delivered, and a
\* call that is in progress goes on (no generation or store call hangs).
SpecStartedFair ==
    /\ SpecStarted
    /\ WF_vars(on_snapshot)
    /\ WF_vars(process_new_messages)

(* ======================================================================= *)
(* Properties                                                              *)
(* ======================================================================= *)
InvocationOver == lpc \in {"ret", "raised"}
AfterSave == lpc \in {"check", "summarize", "update", "reset", "ret"}
InSummarizer == lpc \in {"summarize", "update", "reset"}
AiDocs(S) == \A d \in S : d.sender = "ai"

\* C1 (as stated): every invocation on a non-empty batch has appended exactly
\* one AI message when it returns.
C1_ExactlyOneReply ==
    (lpc = "ret" /\ inv.size >= 1) => Cardinality(inv.added) = 1

\* C1 (amended): an invocation on a non-empty batch appends at most one
\* message, always with sender ai; when it is over it has appended exactly
\* one if the history read returned a non-empty window and the reply write
\* succeeded, and none if the window was empty or the history read or the
\* reply write raised.
C1_AtMostOneReply ==
    /\ Cardinality(inv.added) <= 1
    /\ AiDocs(inv.added)
    /\ (lpc = "ret" /\ inv.size >= 1) =>
          (Cardinality(inv.added) = 1 <=> chat_history # <<>>)
    /\ lpc = "raised" =>
          (inv.raisedBy \in {"history", "save"} /\ inv.added = {})
    /\ AfterSave /\ chat_history # <<>> => Cardinality(inv.added) = 1

C1_Witness ==
    lpc = "ret" /\ inv.size > 1 /\ Cardinality(inv.added) = 1

\* Batch sizes of the finished invocations, and the counter the code's
\* reset-to-zero rule leaves after them.
Sizes == [i \in 1..Len(runs) |-> runs[i].size]
SummarizerCalls == SeqSum([i \in 1..Len(runs) |-> runs[i].summ])
EveryCrossingSummarized ==
    \A i \in 1..Len(runs) : runs[i].inc >= 5 => runs[i].summ = 1

RECURSIVE SinceLastCrossing(_, _)
SinceLastCrossing(c, sizes) ==
    IF sizes = <<>> THEN c
    ELSE SinceLastCrossing(IF c + Head(sizes) >= 5 THEN 0 ELSE c + Head(sizes),
                           Tail(sizes))

\* C2 (as stated): after batches of sizes s1..sK, the Summarizer having run
\* on every crossing, the counter is sum(s1..sK) mod 5; after [2,2,2] the
\* Summarizer has fired once and the counter is 1.
C2_CounterIsSumMod5 ==
    (lpc = "wait" /\ EveryCrossingSummarized) =>
        /\ counter = SeqSum(Sizes) % 5
        /\ Sizes = <<2, 2, 2>> => (SummarizerCalls = 1 /\ counter = 1)

\* C2 (amended): each Summarizer run sets the counter to 0, so after batches
\* s1..sK the counter is the sum of the sizes since the last batch that
\* brought it to 5 or more (0 right after such a batch); after [2,2,2] the
\* Summarizer has fired once, in the third invocation, and the counter is 0.
C2_CounterIsSumSinceReset ==
    (lpc = "wait" /\ EveryCrossingSummarized) =>
        /\ counter = SinceLastCrossing(0, Sizes)
        /\ Sizes = <<2, 2, 2>> =>
              (SummarizerCalls = 1 /\ runs[3].summ = 1 /\ counter = 0)

C2_Witness ==
    lpc = "wait" /\ Sizes = <<2, 2, 2>> /\ counter = 0 /\ SummarizerCalls = 1

\* C3: in an invocation that saved a reply the Summarizer was invoked, once,
\* exactly when the counter after the increment was at least 5; the counter
\* is then 0 at the end, and otherwise keeps the incremented value.
C3_SummarizeIffThreshold ==
    (lpc = "ret" /\ Cardinality(inv.added) = 1) =>
        /\ inv.summ = (IF inv.inc >= 5 THEN 1 ELSE 0)
        /\ counter = (IF inv.inc >= 5 THEN 0 ELSE inv.inc)

C3_Witness ==
    lpc = "ret" /\ Cardinality(inv.added) = 1 /\ inv.inc = 5 /\ inv.summ = 1
        /\ counter = 0

\* C4: the Summarizer is called, and the memory is written, only in an
\* invocation that has already appended its reply.
C4_SummarizeAfterReply ==
    (InSummarizer \/ inv.summ > 0 \/ inv.memWrites > 0) =>
        (Cardinality(inv.added) = 1 /\ inv.added \subseteq msgs)

C4_Witness ==
    lpc = "update" /\ Cardinality(inv.added) = 1

C6_SummaryUnchangedOnFailure ==
    (lpc = "reset" /\ inv.sumFailed) =>
        (memory = inv.memBefore /\ inv.memWrites = 0)

C6_Witness ==
    lpc = "reset" /\ inv.sumFailed /\ memory = "profile_a"

\* C8: an invocation that read an empty history window makes no generation
\* call and no store write, and returns.
C8_EmptyHistoryNoEffect ==
    (inv.histRead /\ chat_history = <<>>) =>
        /\ lpc = "ret"
        /\ inv.genCalls = 0
        /\ inv.added = {}
        /\ inv.memWrites = 0
        /\ inv.summ = 0

C8_Witness ==
    lpc = "ret" /\ inv.histRead /\ chat_history = <<>> /\ inv.size >= 1
        /\ msgs = {}

\* C9: the history read returns min(15, n) of the n stored messages: the most
\* recent ones by timestamp, oldest first; nothing when the log is empty.
C9_RecentWindow ==
    inv.histRead =>
        LET h == chat_history
            n == Cardinality(msgs)
        IN /\ Len(h) = (IF n < 15 THEN n ELSE 15)
           /\ Range(h) \subseteq msgs
           /\ \A i \in 1..(Len(h) - 1) : h[i].ts < h[i + 1].ts
           /\ \A d \in msgs \ Range(h) : \A i \in 1..Len(h) : d.ts < h[i].ts
           /\ n = 0 => h = <<>>

C9_Witness ==
    inv.histRead /\ Cardinality(msgs) = 20 /\ Len(chat_history) = 15
        /\ chat_history[1].ts < chat_history[15].ts

\* C7: no store error and no generation error leaves the component it
\* occurs in: the main thread, the listener callback and the scheduler
\* thread are never ended by one.
C7_ErrorsContained ==
    /\ mpc # "raised"
    /\ lpc # "raised"
    /\ spc # "raised"

\* C10: on a day that has ended, each job whose time of day came while the
\* scheduler had it registered fired exactly once, and no job fired twice.
C10_OncePerDay ==
    \A j \in Jobs :
        /\ closed.fired[j] <= 1
        /\ j \in closed.due => closed.fired[j] = 1

\* The listener has read the summary and the Summarizer has not yet written it.
BetweenReadAndWrite ==
    lpc \in {"history", "generate", "save", "check", "summarize", "update"}

\* C11 (as stated): a check-in job never reads the summary while the
\* listener's invocation is between its memory read and the Summarizer's
\* memory write.
C11_NoOverlap ==
    [][(spc = "job_memory" /\ spc' = "job_generate") => ~BetweenReadAndWrite]_vars

\* C11 (amended): the counter is read and written by the listener thread
\* alone, and the summary is written by the listener thread alone (in the
\* Summarizer); a check-in job only reads the summary, at any moment of an
\* invocation, and gets the value stored at that moment ('' when the read
\* fails).
C11_SingleWriter ==
    [][/\ counter' # counter =>
            (lpc \in {"count", "reset"} /\ lpc' # lpc /\ UNCHANGED <<mpc, spc>>)
       /\ memory' # memory =>
            (lpc = "update" /\ lpc' = "reset" /\ UNCHANGED <<mpc, spc>>)
       /\ (spc = "job_memory" /\ spc' = "job_generate") =>
            (pro_memory' \in {memory, ""} /\ UNCHANGED <<memory, counter, lpc>>)
      ]_vars

\* A check-in job holds the summary it read while the Summarizer has since
\* replaced it.
C11_Witness ==
    /\ spc \in {"job_generate", "job_add"}
    /\ pro_memory = "profile_a"
    /\ memory = "profile_b"

\* C12: at most one invocation is in progress.  A notification is taken off
\* the watch, and an invocation is started, only when the callback is not
\* running; the batch of the running invocation is replaced only when it
\* returns.  A batch that arrives meanwhile waits.
C12_SingleFlight ==
    [][/\ Len(pending') < Len(pending) => lpc = "wait"
       /\ (lpc' = "count" /\ lpc # "count") => lpc = "wait"
       /\ messages' # messages => lpc \in {"wait", "ret"}
      ]_vars

\* A batch of user messages is waiting while an invocation is in a
\* generation call.
C12_Witness ==
    /\ lpc \in {"generate", "summarize"}
    /\ pending # <<>>
    /\ NewUserMessages(Head(pending)) # <<>>

\* C13: the callback hands the pipeline exactly the documents of the changes
\* that are ADDED with sender user, in the order of the notification; it
\* starts one invocation when there is such a change and none otherwise; and
\* an invocation is started by nothing else.
C13_FilterAddedUser ==
    [][/\ (lpc = "wait" /\ pending # <<>> /\ pending' = Tail(pending)) =>
            LET changes == Head(pending)
                idx == {i \in 1..Len(changes) :
                           changes[i].type = "ADDED" /\ changes[i].doc.sender = "user"}
            IN /\ idx # {} =>
                     /\ lpc' = "count"
                     /\ Len(messages') = Cardinality(idx)
                     /\ Range(messages') = {changes[i].doc : i \in idx}
                     /\ \A i \in 1..(Len(messages') - 1) :
                            messages'[i].ts < messages'[i + 1].ts
               /\ idx = {} => (lpc' = "wait" /\ messages' = messages)
       /\ (lpc' = "count" /\ lpc # "count") =>
            (lpc = "wait" /\ pending # <<>> /\ pending' = Tail(pending))
       /\ (lpc = "count" /\ lpc' # "count") => counter' = counter + Len(messages)
      ]_vars

\* Of a notification of three changes, one document was handed on while a
\* user document that was not ADDED stayed behind.
C13_Witness ==
    /\ lpc = "count"
    /\ nextTs = 4
    /\ Len(messages) = 1
    /\ \E d \in msgs : d.sender = "user" /\ d \notin Range(messages)

\* C14: the window an invocation has read holds every message of its batch
\* (no document having been removed).
C14_WindowHasBatch ==
    (inv.histRead /\ removed = 0) => Range(messages) \subseteq Range(chat_history)

\* The main thread is still in send_startup_message, or was ended by it.
BeforeThreads == mpc \in {"startup", "startup_generate", "startup_add", "raised"}

\* C15: the main thread appends one startup message, with sender ai, and
\* only then starts the two threads; it writes nothing else.  While it has
\* not written the message neither thread exists: no notification has been
\* taken, no invocation has run, no job is registered or has fired, and the
\* collection holds no message of the backend.
C15_StartupBeforeThreads ==
    /\ [](BeforeThreads =>
            /\ lpc = "off" /\ spc = "off"
            /\ runs = <<>> /\ inv = NoInv /\ counter = 0
            /\ fired = NoneFired /\ setup_at = -1
            /\ \A d \in msgs : d.sender = "user")
    /\ []((lpc # "off" \/ spc # "off") =>
            (mpc = "done" /\ \E d \in msgs : d.sender = "ai"))
    /\ [][/\ (mpc = "startup_add" /\ mpc' = "threads") =>
               /\ Cardinality(msgs' \ msgs) = 1
               /\ \A d \in msgs' \ msgs : d.sender = "ai" /\ d.text = pro_text
          /\ (mpc' # mpc /\ msgs' # msgs) => mpc = "startup_add"
          /\ mpc' # mpc =>
               <<mpc, mpc'>> \in {<<"startup", "startup_generate">>,
                                 <<"startup_generate", "startup_add">>,
                                 <<"startup_add", "threads">>,
                                 <<"startup_add", "raised">>,
                                 <<"threads", "done">>}
          ]_vars

\* Both threads have been at work after the startup message: an invocation
\* has returned and the morning job has fired.
C15_Witness ==
    /\ mpc = "done"
    /\ runs # <<>>
    /\ fired["morning"] = 1
    /\ \E d \in msgs : d.sender = "ai" /\ d.ts < 3

\* A proactive firing (startup, morning, evening) is at its store write, or
\* takes the step that ends it.
StartupEnds == mpc = "startup_add" /\ mpc' # mpc
JobEnds == spc = "job_add" /\ spc' # spc

C17_FanoutSendsEach ==
    /\ fanout.pc # "raised"
    /\ \A u \in fanout.users : Len(fanout.appended[u]) <= 1
    /\ fanout.pc = "finished" =>
          /\ fanout.listed \in {"ok", "failed"}
          /\ fanout.listed = "ok" =>
                /\ Range(fanout.user_ids) = fanout.users
                /\ Len(fanout.user_ids) = Cardinality(fanout.users)
                /\ fanout.tried = fanout.user_ids
                /\ \A u \in fanout.users :
                      IF u \in fanout.failed
                      THEN fanout.appended[u] = <<>>
                      ELSE \/ fanout.appended[u] = <<FanoutText>>
                           \/ fanout.appended[u] = <<FANOUT_FALLBACK>>
          /\ fanout.listed = "failed" =>
                /\ fanout.tried = <<>>
                /\ fanout.failed = {}
                /\ \A u \in fanout.users : fanout.appended[u] = <<>>

\* A job is finished in which the write failed for one user and a later user
\* still got the fallback of a failed generation.
C17_Witness ==
    /\ fanout.pc = "finished"
    /\ \E u, v \in fanout.users :
          /\ u < v
          /\ u \in fanout.failed
          /\ fanout.appended[v] = <<FANOUT_FALLBACK>>

\* C18: the Summarizer is called with the window and the summary that the
\* invocation read at its start and gave to get_ai_response.  The reply the
\* invocation has just appended is in the collection but not in that window,
\* and the prior summary is the one read, whatever is stored by now.
C18_SummarizerArgs ==
    inv.summ > 0 =>
        /\ inv.sumArgs = inv.replyArgs
        /\ inv.sumArgs = <<inv.window, inv.memRead>>
        /\ inv.sumArgs = <<chat_history, user_memory>>
        /\ Cardinality(inv.added) = 1
        /\ inv.added \subseteq msgs
        /\ inv.added \cap Range(inv.sumArgs[1]) = {}

\* The Summarizer has been called with the '' of a failed memory read while
\* a profile is stored, and with a window that lacks the reply.
C18_Witness ==
    /\ lpc = "update"
    /\ inv.sumArgs[2] = ""
    /\ memory = "profile_a"
    /\ Len(inv.sumArgs[1]) >= 5
    /\ \E d \in inv.added : d \in msgs /\ d \notin Range(inv.sumArgs[1])

\* C19 (as stated): whenever no invocation is in progress, whether the last
\* one returned or was ended by a store error, 0 <= counter < 5.
C19_CounterBelowInterval ==
    lpc \in {"wait", "raised"} => (0 <= counter /\ counter < SUMMARY_INTERVAL)

\* C19 (amended): the counter is never negative.  When the listener is idle
\* it is 0 before the first invocation; after an invocation that saved its
\* reply it is below 5 (0 if that invocation summarized, else the value after
\* its increment); after an invocation that returned on an empty window, or
\* that a store error ended, it is the value after the increment, which can
\* be 5 or more.
C19_CounterWhenIdle ==
    /\ counter >= 0
    /\ (lpc = "wait" /\ runs = <<>>) => counter = 0
    /\ (lpc = "wait" /\ runs # <<>>) =>
          LET last == runs[Len(runs)]
          IN IF last.added = 1
             THEN /\ counter < SUMMARY_INTERVAL
                  /\ counter = (IF last.inc >= SUMMARY_INTERVAL THEN 0 ELSE last.inc)
             ELSE /\ last.added = 0
                  /\ counter = last.inc
    /\ lpc = "raised" => (counter = inv.inc /\ inv.added = {})

\* The listener is idle with the counter at the threshold: the last
\* invocation returned on an empty window.
C19_Witness ==
    /\ lpc = "wait"
    /\ counter >= SUMMARY_INTERVAL
    /\ runs # <<>>
    /\ runs[Len(runs)].added = 0

\* Replies appended by the pipeline and user messages handed to it so far.
RECURSIVE SumOf(_, _)
SumOf(field, s) == IF s = <<>> THEN 0 ELSE Head(s)[field] + SumOf(field, Tail(s))
Replies == SumOf("added", runs) + Cardinality(inv.added)
UserMessagesObserved == SumOf("size", runs) + inv.size
UserDocs == {d \in msgs : d.sender = "user"}

\* No invocation is running and no notification is waiting for a
\* subscribed listener.
Quiet ==
    /\ lpc \in {"off", "starting", "wait", "raised"}
    /\ lpc = "wait" => pending = <<>>

\* C20: an invocation is started only by a notification that holds an ADDED
\* change of a user message, so none is started by the writes of the backend
\* itself (replies, startup message, check-ins); the replies appended never
\* outnumber the user messages handed to the pipeline, nor the user messages
\* stored; and, the user writing a bounded number of messages, the listener
\* ends up for good with no invocation running and nothing to deliver.
C20_NoSelfTrigger ==
    /\ [](Replies <= UserMessagesObserved /\ UserMessagesObserved <= Cardinality(UserDocs))
    /\ [][(lpc' = "count" /\ lpc # "count") =>
            \E i \in 1..Len(Head(pending)) :
                /\ Head(pending)[i].type = "ADDED"
                /\ Head(pending)[i].doc.sender = "user"]_vars
    /\ <>[]Quiet

\* The listener is idle for good after a reply, with the startup message, a
\* check-in and the reply stored, all from the backend, and nothing waiting.
C20_Witness ==
    /\ Quiet
    /\ lpc = "wait"
    /\ Replies = 1
    /\ userSent = 1
    /\ fired["morning"] = 1
    /\ Cardinality(msgs \ UserDocs) >= 3

====
